---- MODULE Spec2Model ----
(***************************************************************************)
(* Sortify: the move executors (services/executor.py Executor and          *)
(* services/execution.py ExecutionService) over one filesystem, and the    *)
(* few-shot memory (services/memory.py SemanticMemory).                    *)
(*                                                                         *)
(* A path is a record [parent, stem, suffix], i.e. pathlib's split of      *)
(* parent / (stem + suffix).  The filesystem fs maps every existing file   *)
(* path to the identity of the file stored there; dirs is the set of       *)
(* existing folders.  One call is in flight at a time (the single consumer *)
(* thread); pc is its position and cur its local variables.                *)
(***************************************************************************)
EXTENDS Integers, Sequences, FiniteSets, TLC

VARIABLES
    fs,            \* existing file paths -> file identity
    dirs,          \* existing folders
    nfiles,        \* number of files that have appeared so far
    DRY_RUN,       \* settings.DRY_RUN
    transactions,  \* Executor.transactions (in memory)
    txfile,        \* contents of transactions.json
    db,            \* rows of the Transaction table, in insertion order
    pc,            \* position of the call in flight
    cur,           \* local variables of the call in flight
    last,          \* the call that returned last, with its result
    ncalls,        \* number of move calls started
    mover,         \* the component this deployment routes its moves through
    _recently_moved,  \* Executor._recently_moved: resolved path -> time of the move
    guard,         \* the process_file call that checked the guard last
    data,          \* SemanticMemory.data
    embeddings_cache,  \* SemanticMemory.embeddings_cache
    memory_file,   \* contents of memory.json
    memlast,       \* the memory call that returned last
    clusters,      \* AtlasService.clusters, in insertion order
    _embedding_matrix,  \* AtlasService._embedding_matrix
    _path_index,   \* AtlasService._path_index
    index_file,    \* contents of atlas_v2.json
    averaged,      \* history: per folder, the embeddings its centroid was built from
    atlast,        \* the Atlas call that returned last
    now,           \* the clock, in ticks
    history,       \* SessionManager.history
    sesslast,      \* the session call that returned last
    vpc,           \* position of the classification request in flight
    context,       \* its FileContext, as far as the voters read it
    futures,       \* per fast voter, what its vote() call came to
    votes,         \* the votes list of process_file
    verdict,       \* winner, confidence and method of process_file
    trail,         \* history: the first arbitration and the NLI call of the request
    queue,         \* the processing queue of the controller
    running,       \* EventProcessor.running
    paused,        \* EventProcessor.paused
    resources,     \* what resource_guard.check() answers at this time
    ppc,           \* position of the consumer thread in run()
    inflight,      \* file_path of run(): the path taken from the queue
    plast,         \* the process_file call that returned last
    record         \* history: paths put, paths taken, files begun after stop()

execVars == <<fs, dirs, nfiles, DRY_RUN, transactions, txfile, db, pc, cur, last, ncalls, mover,
              _recently_moved>>

memVars == <<data, embeddings_cache, memory_file, memlast>>

atlasVars == <<clusters, _embedding_matrix, _path_index, index_file, averaged, atlast>>

sessVars == <<history, sesslast>>

voteVars == <<vpc, context, futures, votes, verdict, trail>>

procVars == <<queue, running, paused, resources, ppc, inflight, plast, record>>

vars == <<execVars, guard, memVars, atlasVars, now, sessVars, voteVars, procVars>>

outsideExec == <<guard, memVars, atlasVars, now, sessVars, voteVars, procVars>>

outsideMem == <<execVars, guard, atlasVars, now, sessVars, voteVars, procVars>>

outsideAtlas == <<execVars, guard, memVars, now, sessVars, voteVars, procVars>>

outsideSession == <<execVars, guard, memVars, atlasVars, voteVars, procVars>>

outsideVoting == <<execVars, guard, memVars, atlasVars, procVars>>

----------------------------------------------------------------------------
(* Bounds *)

MaxFiles == 3
MaxCalls == 2

\* SemanticMemory.max_entries and max_text_chars (200 and 160 in the source)
\* and the embedding dimension of the provider, scaled down
max_entries == 3
max_text_chars == 2
Dim == 2

\* Time is counted in ticks up to MaxTime.  SessionManager.window (5 minutes)
\* and the maxlen of its history (50), scaled down
MaxTime == 4
window == 2
maxlen == 3

\* Executor._cooldown_seconds (10.0 in the source), in ticks
_cooldown_seconds == 2

(* The folders and file names the inputs are drawn from. *)
Folders == {"Downloads", "Docs"}

Names == {[stem |-> "report", suffix |-> ".pdf"],
          [stem |-> "report_v2", suffix |-> ".pdf"]}

NoName == [stem |-> "", suffix |-> ""]

JoinPath(parent, name) == [parent |-> parent, stem |-> name.stem, suffix |-> name.suffix]

NameOf(p) == [stem |-> p.stem, suffix |-> p.suffix]

InputPaths == {JoinPath(d, n) : d \in Folders, n \in Names}

\* a source path that may not exist when a move is requested
MissingPath == [parent |-> "Downloads", stem |-> "report", suffix |-> ".pdf"]

\* the new_name arguments safe_move is called with: its only caller,
\* EventProcessor.process_file, passes none
NewNames == {NoName}

NoPath == [parent |-> "", stem |-> "", suffix |-> ""]

\* str(path.resolve()): the key of a path (the folders of the model hold no
\* symbolic links)
resolve(p) == p.parent \o "/" \o p.stem \o p.suffix

----------------------------------------------------------------------------
(* Filesystem primitives *)

\* Path.exists() against a given set of existing paths
exists(p, files) == p \in files

\* shutil.move(a, b) when it succeeds: the file at a is now at b (a rename
\* replaces whatever was stored at b)
shutil_move(f, a, b) ==
    [q \in (DOMAIN f \ {a}) \cup {b} |-> IF q = b THEN f[a] ELSE f[q]]

\* f"{stem}_v{counter}{suffix}" in dest.parent
Versioned(dest, counter) ==
    [dest EXCEPT !.stem = dest.stem \o "_v" \o ToString(counter)]

\* the `while True` probe shared by both resolvers
RECURSIVE FirstFree(_, _, _)
FirstFree(dest, counter, files) ==
    IF ~ exists(Versioned(dest, counter), files)
    THEN Versioned(dest, counter)
    ELSE FirstFree(dest, counter + 1, files)

\* variant: the probe starts one too high
_get_safe_dest_from3(dest, files) ==
    IF ~ exists(dest, files) THEN dest ELSE FirstFree(dest, 3, files)

\* variant: no collision check
_get_safe_dest_literal(dest, files) == dest

\* Executor._get_safe_dest
_get_safe_dest(dest, files) ==
    IF ~ exists(dest, files) THEN dest ELSE FirstFree(dest, 2, files)

\* ExecutionService._resolve_collision
_resolve_collision(dest, files) ==
    IF ~ exists(dest, files) THEN dest ELSE FirstFree(dest, 1, files)

----------------------------------------------------------------------------
(* Records *)

NoCall == [op |-> "none", ret |-> "none", src |-> NoPath, dest |-> NoPath,
           final |-> NoPath, moved |-> FALSE, fs_failed |-> FALSE,
           pre_fs |-> <<>>, pre_tx |-> <<>>, pre_txfile |-> <<>>]

NoCur == [src |-> NoPath, dest |-> NoPath, final |-> NoPath, tx |-> 0,
          pre_fs |-> <<>>, pre_tx |-> <<>>, pre_txfile |-> <<>>]

\* an entry of Executor.transactions
MoveEntry(src, dest, timestamp) ==
    [action |-> "move", src |-> src, dest |-> dest, timestamp |-> timestamp]

\* what process_file found when it consulted the guard
NoGuard == [outcome |-> "none", path |-> NoPath, at |-> 0, calls |-> 0, pre_tx |-> <<>>]

\* a Transaction row (id = position in db; the timestamp is not modelled)
Transaction(src, dest, status) ==
    [src_path |-> src, dest_path |-> dest, action_type |-> "move",
     status |-> status, original_path |-> src]

----------------------------------------------------------------------------
InitExecutors ==
    /\ fs = <<>>
    /\ dirs = {"Downloads"}
    /\ nfiles = 0
    /\ DRY_RUN \in BOOLEAN
    /\ transactions = <<>>
    /\ txfile = <<>>
    /\ db = <<>>
    /\ pc = "idle"
    /\ cur = NoCur
    /\ last = NoCall
    /\ ncalls = 0
    /\ mover \in {"Executor", "ExecutionService"}
    /\ _recently_moved = <<>>
    /\ guard = NoGuard
    /\ DRY_RUN => mover = "Executor"      \* only Executor reads DRY_RUN

(* A new file appears in an existing folder (a download finishes, the user *)
(* saves a file).  Arrivals are taken between the consumer's calls.        *)
FileCreated(p) ==
    /\ pc = "idle"
    /\ nfiles < MaxFiles
    /\ p.parent \in dirs
    /\ p \notin DOMAIN fs
    /\ fs' = (p :> (nfiles + 1)) @@ fs
    /\ nfiles' = nfiles + 1
    /\ last' = NoCall
    /\ UNCHANGED <<dirs, DRY_RUN, transactions, txfile, db, pc, cur, ncalls, mover, _recently_moved, outsideExec>>

----------------------------------------------------------------------------
(* Executor.safe_move *)

\* variant: the setting is not consulted
dry_run_ignored(setting) == FALSE

\* line 70: if settings.DRY_RUN
dry_run(setting) == setting

\* lines 62-75: existence check, destination, dry run, mkdir
SafeMoveCall(src, dest_folder, new_name) ==
    /\ mover = "Executor"
    /\ pc = "idle"
    /\ ncalls < MaxCalls
    /\ ncalls' = ncalls + 1
    /\ LET dest_name  == IF new_name # NoName THEN new_name ELSE NameOf(src)
           dest       == JoinPath(dest_folder, dest_name)
           final_dest == _get_safe_dest(dest, DOMAIN fs)
           call       == [NoCall EXCEPT !.op = "safe_move", !.src = src, !.dest = dest,
                                        !.pre_fs = fs, !.pre_tx = transactions,
                                        !.pre_txfile = txfile]
       IN  IF ~ exists(src, DOMAIN fs)
           THEN /\ last' = [call EXCEPT !.ret = "false"]
                /\ UNCHANGED <<fs, dirs, nfiles, DRY_RUN, transactions, txfile, db, pc, cur, mover, _recently_moved, outsideExec>>
           ELSE IF dry_run(DRY_RUN)
           THEN /\ last' = [call EXCEPT !.ret = "true", !.final = final_dest]
                /\ UNCHANGED <<fs, dirs, nfiles, DRY_RUN, transactions, txfile, db, pc, cur, mover, _recently_moved, outsideExec>>
           ELSE /\ dirs' = dirs \cup {dest_folder}
                /\ pc' = "sm_move"
                /\ cur' = [NoCur EXCEPT !.src = src, !.dest = dest, !.final = final_dest,
                                        !.pre_fs = fs, !.pre_tx = transactions,
                                        !.pre_txfile = txfile]
                /\ last' = NoCall
                /\ UNCHANGED <<fs, nfiles, DRY_RUN, transactions, txfile, db, mover, _recently_moved, outsideExec>>

CurCall(op) == [NoCall EXCEPT !.op = op, !.src = cur.src, !.dest = cur.dest,
                              !.final = cur.final, !.pre_fs = cur.pre_fs,
                              !.pre_tx = cur.pre_tx, !.pre_txfile = cur.pre_txfile]

\* line 78: shutil.move succeeds
SafeMoveShutil ==
    /\ pc = "sm_move"
    /\ fs' = shutil_move(fs, cur.src, cur.final)
    /\ pc' = "sm_log"
    /\ UNCHANGED <<dirs, nfiles, DRY_RUN, transactions, txfile, db, cur, last, ncalls, mover, _recently_moved, outsideExec>>

\* line 78 raises: lines 95-97 report False
SafeMoveShutilFails ==
    /\ pc = "sm_move"
    /\ pc' = "idle"
    /\ cur' = NoCur
    /\ last' = [CurCall("safe_move") EXCEPT !.ret = "false", !.fs_failed = TRUE]
    /\ UNCHANGED <<fs, dirs, nfiles, DRY_RUN, transactions, txfile, db, ncalls, mover, _recently_moved, outsideExec>>

\* lines 82-93: note the destination as recently moved, append the entry,
\* save the log, return True
SafeMoveLog ==
    /\ pc = "sm_log"
    /\ _recently_moved' = (resolve(cur.final) :> now) @@ _recently_moved
    /\ transactions' = Append(transactions, MoveEntry(cur.src, cur.final, now))
    /\ txfile' = transactions'
    /\ pc' = "idle"
    /\ cur' = NoCur
    /\ last' = [CurCall("safe_move") EXCEPT !.ret = "true", !.moved = TRUE]
    /\ UNCHANGED <<fs, dirs, nfiles, DRY_RUN, db, ncalls, mover, outsideExec>>

----------------------------------------------------------------------------
(* Executor.undo_last *)

Front(s) == SubSeq(s, 1, Len(s) - 1)

\* what undo_last leaves behind and returns
UndoResult(ret, f, txs, file, src, dest, moved, fs_failed) ==
    [ret |-> ret, fs |-> f, transactions |-> txs, txfile |-> file,
     src |-> src, final |-> dest, moved |-> moved, fs_failed |-> fs_failed]

\* variant: the empty log is reported as a success and saved
undo_empty_saves(f, txs, file) ==
    UndoResult("true", f, txs, txs, NoPath, NoPath, FALSE, FALSE)

\* lines 103-105: nothing to undo
undo_empty(f, txs, file) ==
    UndoResult("false", f, txs, file, NoPath, NoPath, FALSE, FALSE)

\* lines 107-127: pop the last entry, then move the file back when the
\* destination exists and the source does not; moved_ok is whether
\* shutil.move (line 117) succeeds when it is reached
undo_entry(f, txs, file, moved_ok) ==
    LET last_tx == txs[Len(txs)]
        popped  == Front(txs)                                  \* line 107: pop()
        src     == last_tx.src
        dest    == last_tx.dest
    IN  IF exists(dest, DOMAIN f) /\ ~ exists(src, DOMAIN f)
        THEN IF moved_ok
             THEN UndoResult("true", shutil_move(f, dest, src), popped, popped,
                             src, dest, TRUE, FALSE)
             ELSE UndoResult("false", f, popped, file, src, dest, FALSE, TRUE)
        ELSE UndoResult("false", f, popped, file, src, dest, FALSE, FALSE)

undo_last(moved_ok) ==
    /\ mover = "Executor"
    /\ pc = "idle"
    /\ LET r == IF transactions = <<>>
                THEN undo_empty(fs, transactions, txfile)
                ELSE undo_entry(fs, transactions, txfile, moved_ok)
       IN  /\ fs' = r.fs
           /\ transactions' = r.transactions
           /\ txfile' = r.txfile
           /\ last' = [NoCall EXCEPT !.op = "undo_last", !.ret = r.ret, !.src = r.src,
                                     !.final = r.final, !.moved = r.moved,
                                     !.fs_failed = r.fs_failed]
    /\ UNCHANGED <<dirs, nfiles, DRY_RUN, db, pc, cur, ncalls, mover, _recently_moved, outsideExec>>

----------------------------------------------------------------------------
(* ExecutionService.execute_move *)

SetStatus(rows, i, status) == [rows EXCEPT ![i].status = status]

\* lines 51-72: resolve the collision, insert the pending row, commit
ExecuteMoveCall(src, dest) ==
    /\ mover = "ExecutionService"
    /\ pc = "idle"
    /\ ncalls < MaxCalls
    /\ ncalls' = ncalls + 1
    /\ LET final_dest == _resolve_collision(dest, DOMAIN fs)
       IN  /\ db' = Append(db, Transaction(src, final_dest, "pending"))
           /\ cur' = [NoCur EXCEPT !.src = src, !.dest = dest, !.final = final_dest,
                                   !.tx = Len(db) + 1, !.pre_fs = fs]
    /\ pc' = "ex_move"
    /\ last' = NoCall
    /\ UNCHANGED <<fs, dirs, nfiles, DRY_RUN, transactions, txfile, mover, _recently_moved, outsideExec>>

\* lines 76-77 succeed
ExecuteMoveShutil ==
    /\ pc = "ex_move"
    /\ exists(cur.src, DOMAIN fs)
    /\ dirs' = dirs \cup {cur.final.parent}
    /\ fs' = shutil_move(fs, cur.src, cur.final)
    /\ pc' = "ex_final"
    /\ UNCHANGED <<nfiles, DRY_RUN, transactions, txfile, db, cur, last, ncalls, mover, _recently_moved, outsideExec>>

\* line 76 or line 77 raises (always when src is missing); lines 99-105 mark
\* the row failed and re-raise
ExecuteMoveShutilFails(mkdir_done) ==
    /\ pc = "ex_move"
    /\ dirs' = IF mkdir_done THEN dirs \cup {cur.final.parent} ELSE dirs
    /\ db' = SetStatus(db, cur.tx, "failed")
    /\ pc' = "idle"
    /\ cur' = NoCur
    /\ last' = [CurCall("execute_move") EXCEPT !.ret = "raised", !.fs_failed = TRUE]
    /\ UNCHANGED <<fs, nfiles, DRY_RUN, transactions, txfile, ncalls, mover, _recently_moved, outsideExec>>

\* lines 79-97: mark the row committed, update the file index, commit,
\* announce ACTION_COMPLETED
ExecuteMoveFinalize ==
    /\ pc = "ex_final"
    /\ db' = SetStatus(db, cur.tx, "committed")
    /\ pc' = "idle"
    /\ cur' = NoCur
    /\ last' = [CurCall("execute_move") EXCEPT !.ret = "returned", !.moved = TRUE]
    /\ UNCHANGED <<fs, dirs, nfiles, DRY_RUN, transactions, txfile, ncalls, mover, _recently_moved, outsideExec>>

\* a statement of lines 79-97 raises after the file has moved; the handler
\* of lines 99-105 runs: it marks the row failed, or, when the session was
\* left unusable by a failed flush, raises itself and the row keeps the
\* status stored last
ExecuteMoveFinalizeFails(status) ==
    /\ pc = "ex_final"
    /\ db' = SetStatus(db, cur.tx, status)
    /\ pc' = "idle"
    /\ cur' = NoCur
    /\ last' = [CurCall("execute_move") EXCEPT !.ret = "raised", !.moved = TRUE]
    /\ UNCHANGED <<fs, dirs, nfiles, DRY_RUN, transactions, txfile, ncalls, mover, _recently_moved, outsideExec>>

----------------------------------------------------------------------------
(* The process stops (possibly in the middle of a call) and is started     *)
(* again: Executor.__init__ reloads the transaction log.                   *)
Restart ==
    /\ pc # "idle" \/ transactions # txfile
    /\ transactions' = txfile
    /\ pc' = "idle"
    /\ cur' = NoCur
    /\ last' = NoCall
    /\ _recently_moved' = <<>>
    /\ UNCHANGED <<fs, dirs, nfiles, DRY_RUN, txfile, db, ncalls, mover, outsideExec>>

----------------------------------------------------------------------------
(* The guard against moving a file the executor has just placed *)

\* variant: an entry as old as the cooldown still counts
cooling_inclusive(t, current_time) == current_time - t <= _cooldown_seconds

\* executor.py lines 140 and 144-145
cooling(t, current_time) == current_time - t < _cooldown_seconds

\* lines 137-141: the old entries are dropped
cleaned_up(moved, current_time) ==
    [p \in {q \in DOMAIN moved : cooling(moved[q], current_time)} |-> moved[p]]

\* Executor.is_recently_moved, lines 129-148: what it returns
is_recently_moved(moved, file_path, current_time) ==
    LET resolved_path == resolve(file_path)
        kept          == cleaned_up(moved, current_time)
    IN  /\ resolved_path \in DOMAIN kept
        /\ cooling(kept[resolved_path], current_time)

\* EventProcessor.process_file, processor.py lines 64-73: a file that has
\* vanished and a file the executor placed within the cooldown are left alone;
\* any other file goes on to be classified and moved
process_file(file_path) ==
    /\ pc = "idle"
    /\ LET call == [NoGuard EXCEPT !.path = file_path, !.at = now, !.calls = ncalls,
                                   !.pre_tx = transactions]
       IN  IF ~ exists(file_path, DOMAIN fs)
           THEN /\ guard' = [call EXCEPT !.outcome = "missing"]
                /\ UNCHANGED _recently_moved
           ELSE /\ _recently_moved' = cleaned_up(_recently_moved, now)
                /\ guard' = [call EXCEPT !.outcome =
                                 IF is_recently_moved(_recently_moved, file_path, now)
                                 THEN "skipped" ELSE "processing"]
    /\ UNCHANGED <<fs, dirs, nfiles, DRY_RUN, transactions, txfile, db, pc, cur, last, ncalls,
                   mover, memVars, atlasVars, now, sessVars, voteVars, procVars>>

\* processor.py lines 75-165: the file that passed the guard is classified and
\* handed to safe_move
process_file_move(target_folder) ==
    /\ guard.outcome = "processing"
    /\ guard.calls = ncalls
    /\ SafeMoveCall(guard.path, target_folder, NoName)

----------------------------------------------------------------------------
(* SemanticMemory (services/memory.py) *)

Min(a, b) == IF a < b THEN a ELSE b

\* s[:n]
Take(s, n) == SubSeq(s, 1, Min(Len(s), n))

\* An embedding value: kind "list" is a flat list of numbers, "dirty" a flat
\* list whose first element is a number and a later one is not, "nested" a
\* list of lists (a 2-D array's tolist()), "none" anything that is not a
\* list; vec holds the elements (for "nested", the rows).
Embedding(kind, vec) == [kind |-> kind, vec |-> vec]

NoEmbedding == Embedding("none", <<>>)

MemoryEntry(text, category, embedding) ==
    [text |-> text, category |-> category, embedding |-> embedding]

NoCache == [ok |-> FALSE, rows |-> <<>>]

NoFile == [present |-> FALSE, entries |-> <<>>]

MemState(d, cache, file) == [data |-> d, cache |-> cache, file |-> file]

\* save(): lines 62-69
save(d) == [present |-> TRUE, entries |-> d]

\* line 83: isinstance(emb, list) and emb and isinstance(emb[0], (int, float))
IndexableEmbedding(emb) == emb.kind \in {"list", "dirty"} /\ emb.vec # <<>>

\* line 96: np.array(rows, dtype=float32) succeeds on rows of one length
\* that hold numbers only
Rectangular(rows) ==
    /\ \A i, k \in DOMAIN rows : Len(rows[i].vec) = Len(rows[k].vec)
    /\ \A i \in DOMAIN rows : rows[i].kind = "list"

\* _rebuild_index(): lines 71-104
_rebuild_index(d, file) ==
    IF d = <<>>
    THEN MemState(d, NoCache, file)
    ELSE LET clean_data == SelectSeq(d, LAMBDA e : IndexableEmbedding(e.embedding))
             pruned     == Len(d) - Len(clean_data)
             kept       == Take(clean_data, max_entries)
             rows       == [i \in DOMAIN kept |-> kept[i].embedding]
         IN  IF clean_data = <<>>
             THEN MemState(kept, NoCache, file)
             ELSE IF ~ Rectangular(rows)
             THEN MemState(kept, NoCache, file)
             ELSE MemState(kept, [ok |-> TRUE, rows |-> rows],
                           IF pruned > 0 THEN save(kept) ELSE file)

\* the embedding provider: a fixed unit vector of dimension Dim per text,
\* returned as the one row of a 2-D array (np.vstack of the batches)
RECURSIVE UnitVec(_, _)
UnitVec(hot, n) == IF n = 0 THEN <<>> ELSE Append(UnitVec(hot, n - 1), IF n = hot THEN 1 ELSE 0)

encode(text) == Embedding("nested", <<UnitVec(IF Len(text) % 2 = 1 THEN 1 ELSE Dim, Dim)>>)

\* line 115: an entry with this text and category is stored
Duplicate(d, text, category) ==
    \E i \in DOMAIN d : d[i].text = text /\ d[i].category = category

\* variant: nothing is evicted at capacity
evict_none(d) == d

\* lines 123-124: drop the oldest entry at capacity
evict(d) == IF Len(d) >= max_entries THEN Tail(d) ELSE d

\* learn(): lines 106-134, from the stored data and file to the new ones
learned(d, cache, file, text, category, embedding) ==
    LET emb == IF embedding = NoEmbedding THEN encode(text) ELSE embedding
    IN  IF Duplicate(d, text, category)
        THEN MemState(d, cache, file)
        ELSE LET stored == Take(text, max_text_chars)
                 grown  == Append(evict(d), MemoryEntry(stored, category, emb))
             IN  _rebuild_index(grown, save(grown))

\* load(): lines 28-60; model_ready is whether the embedding model answers
\* the dimension query of line 36
loaded(file, model_ready) ==
    IF ~ file.present
    THEN _rebuild_index(<<>>, file)
    ELSE LET raw_data == file.entries
         IN  IF model_ready
             THEN LET fits(e)  == e.embedding.kind # "none" /\ Len(e.embedding.vec) = Dim
                      matching == SelectSeq(raw_data, fits)
                      cleaned  == [i \in DOMAIN matching |->
                                     [matching[i] EXCEPT !.text = Take(@, max_text_chars)]]
                      pruned   == Len(raw_data) - Len(cleaned)
                      kept     == Take(cleaned, max_entries)
                  IN  _rebuild_index(kept,
                          IF pruned > 0 \/ Len(cleaned) > max_entries THEN save(kept) ELSE file)
             ELSE _rebuild_index(Take(raw_data, max_entries), file)

\* A cosine c is kept as the fraction sgn(c) * c^2, which orders as c does.
Fraction(n, d) == [n |-> n, d |-> d]

\* the cosine n/d for 0 <= n/d
Cosine(n, d) == Fraction(n * n, d * d)

Greater(x, y) == x.n * y.d > y.n * x.d

RECURSIVE Dot(_, _)
Dot(a, b) == IF a = <<>> THEN 0 ELSE Head(a) * Head(b) + Dot(Tail(a), Tail(b))

\* sentence_transformers.util.cos_sim of two vectors of one length: both are
\* normalised (a zero vector stays zero) and multiplied
cos_sim(a, b) ==
    LET dot   == Dot(a, b)
        norms == Dot(a, a) * Dot(b, b)
    IN  IF norms = 0 THEN Fraction(0, 1)
        ELSE Fraction(IF dot < 0 THEN 0 - dot * dot ELSE dot * dot, norms)

\* np.argmax: the first position that holds the maximum
argmax(hits) ==
    CHOOSE i \in DOMAIN hits :
        /\ \A k \in DOMAIN hits : ~ Greater(hits[k], hits[i])
        /\ \A k \in 1..(i - 1) : Greater(hits[i], hits[k])

\* (None, 0.0)
NoRecall == [category |-> "None", score |-> Fraction(0, 1)]

\* recall(): lines 136-166
recalled(d, cache, query, threshold) ==
    IF ~ cache.ok \/ Len(d) < 1
    THEN NoRecall
    ELSE IF \E i \in DOMAIN cache.rows : Len(cache.rows[i].vec) # Len(query)
    THEN NoRecall                                   \* cos_sim raises: lines 163-166
    ELSE LET hits           == [i \in DOMAIN cache.rows |-> cos_sim(query, cache.rows[i].vec)]
             best_score_idx == argmax(hits)
             best_score     == hits[best_score_idx]
         IN  IF Greater(best_score, threshold) /\ best_score_idx \in DOMAIN d
             THEN [category |-> d[best_score_idx].category, score |-> best_score]
             ELSE NoRecall

(* Inputs *)

RECURSIVE Repeat(_, _)
Repeat(c, n) == IF n = 0 THEN "" ELSE Repeat(c, n - 1) \o c

\* one short text and two texts longer than max_text_chars with the same
\* first max_text_chars characters
Texts == {"a", Repeat("k", max_text_chars) \o "x", Repeat("k", max_text_chars) \o "y"}

Categories == {"Docs", "Pics"}

\* a vector at cosine 3/5 to the first unit vector and 4/5 to the second
Slanted == [i \in 1..Dim |-> IF i = 1 THEN 3 ELSE IF i = 2 THEN 4 ELSE 0]

\* the embedding arguments of learn: none (the text is encoded, as
\* Classifier.learn does before the call), a flat vector of the provider's
\* dimension, a flat vector of another model's dimension
EmbeddingInputs ==
    {NoEmbedding, Embedding("list", UnitVec(1, Dim)), Embedding("list", UnitVec(1, Dim + 1))}

\* the examples learned where recall is exercised: two unit vectors, one
\* slanted, one of another model's dimension
RecallExamples ==
    {MemoryEntry("a", "Docs", Embedding("list", UnitVec(1, Dim))),
     MemoryEntry("bb", "Pics", Embedding("list", UnitVec(2, Dim))),
     MemoryEntry("c", "Pics", Embedding("list", Slanted)),
     MemoryEntry("d", "Docs", Embedding("list", UnitVec(1, Dim + 1)))}

\* the query embeddings and thresholds of recall: 0.6 is the default, 0.7
\* the HistoryVoter's
Queries == {UnitVec(1, Dim), UnitVec(2, Dim)}

Thresholds == {Cosine(3, 5), Cosine(7, 10)}

\* a memory.json holding one entry more than max_entries, one of them with
\* an embedding of another model's dimension
OverfullFile ==
    save([i \in 1..(max_entries + 1) |->
            MemoryEntry(Repeat("f", i), "Docs",
                        IF i = 2 THEN Embedding("list", UnitVec(1, Dim + 1))
                                 ELSE Embedding("list", UnitVec(1, Dim)))])

\* a memory.json one of whose entries holds a non-numeric element
CorruptFile ==
    save(<<MemoryEntry("a", "Docs", Embedding("list", UnitVec(1, Dim))),
           MemoryEntry("b", "Pics", Embedding("dirty", UnitVec(2, Dim)))>>)

InitialFiles == {NoFile, OverfullFile, CorruptFile}

NoMemCall == [op |-> "none", text |-> "", category |-> "", embedding |-> NoEmbedding,
              before |-> <<>>, query |-> <<>>, threshold |-> Fraction(0, 1),
              ret |-> NoRecall]

SetMemory(m) ==
    /\ data' = m.data
    /\ embeddings_cache' = m.cache
    /\ memory_file' = m.file

\* SemanticMemory.__init__: load() of whatever memory.json holds
MemoryConstructed ==
    \E file \in InitialFiles, model_ready \in BOOLEAN :
        LET m == loaded(file, model_ready)
        IN  /\ data = m.data
            /\ embeddings_cache = m.cache
            /\ memory_file = m.file
            /\ memlast = NoMemCall

learn(text, category, embedding) ==
    /\ SetMemory(learned(data, embeddings_cache, memory_file, text, category, embedding))
    /\ memlast' = [NoMemCall EXCEPT !.op = "learn", !.text = text, !.category = category,
                                    !.embedding = embedding, !.before = data]
    /\ UNCHANGED outsideMem

\* the process is started again: SemanticMemory.__init__ calls load()
load(model_ready) ==
    /\ SetMemory(loaded(memory_file, model_ready))
    /\ memlast' = [NoMemCall EXCEPT !.op = "load", !.before = data]
    /\ UNCHANGED outsideMem

recall(query, threshold) ==
    /\ memlast' = [NoMemCall EXCEPT !.op = "recall", !.before = data, !.query = query,
                                    !.threshold = threshold,
                                    !.ret = recalled(data, embeddings_cache, query, threshold)]
    /\ UNCHANGED <<data, embeddings_cache, memory_file, outsideMem>>

----------------------------------------------------------------------------
(* FolderCluster (core/models.py) and AtlasService (services/atlas.py) *)

MIN_FILES_FOR_CENTROID == 3

None == <<>>

Abs(x) == IF x < 0 THEN 0 - x ELSE x

RECURSIVE GCD(_, _)
GCD(a, b) == IF b = 0 THEN a ELSE GCD(b, a % b)

\* the number n/d (d > 0) in lowest terms
Ratio(n, d) == LET g == GCD(Abs(n), d) IN Fraction(n \div g, d \div g)

\* a vector of integers as a vector of numbers
Exact(vec) == [i \in DOMAIN vec |-> Fraction(vec[i], 1)]

FolderCluster(path, centroid, name_embedding, n_files) ==
    [path |-> path, centroid |-> centroid, name_embedding |-> name_embedding,
     n_files |-> n_files]

\* variant: the step of the running average is divided by the old count
update_centroid_old_count(c, new_embedding) ==
    IF c.centroid = None
    THEN [c EXCEPT !.centroid = Exact(new_embedding), !.n_files = 1]
    ELSE LET n   == c.n_files + 1
             old == c.centroid
         IN  [c EXCEPT !.n_files = n,
                       !.centroid = [i \in DOMAIN old |->
                           Ratio(old[i].n * (n - 1) + new_embedding[i] * old[i].d - old[i].n,
                                 old[i].d * (n - 1))]]

\* FolderCluster.update_centroid: old + (new - old) / n_files, lines 31-39
update_centroid(c, new_embedding) ==
    IF c.centroid = None
    THEN [c EXCEPT !.centroid = Exact(new_embedding), !.n_files = 1]
    ELSE LET n   == c.n_files + 1
             old == c.centroid
         IN  [c EXCEPT !.n_files = n,
                       !.centroid = [i \in DOMAIN old |->
                           Ratio(old[i].n * n + new_embedding[i] * old[i].d - old[i].n,
                                 old[i].d * n)]]

\* variant: the centroid is used as soon as there is one
get_effective_embedding_early(c) ==
    IF c.centroid # None THEN c.centroid ELSE c.name_embedding

\* FolderCluster.get_effective_embedding: lines 41-45
get_effective_embedding(c) ==
    IF c.centroid # None /\ c.n_files >= MIN_FILES_FOR_CENTROID
    THEN c.centroid
    ELSE c.name_embedding

RECURSIVE VecSum(_)
VecSum(embeddings) ==
    IF Len(embeddings) = 1 THEN embeddings[1]
    ELSE [i \in DOMAIN embeddings[1] |-> embeddings[1][i] + VecSum(Tail(embeddings))[i]]

\* np.mean(embeddings, axis=0)
np_mean(embeddings) ==
    [i \in DOMAIN embeddings[1] |-> Ratio(VecSum(embeddings)[i], Len(embeddings))]

\* _compute_folder_centroid: lines 165-202, over the embeddings of the
\* sampled files
_compute_folder_centroid(c, embeddings) ==
    IF embeddings = <<>> THEN c
    ELSE [c EXCEPT !.centroid = np_mean(embeddings), !.n_files = Len(embeddings)]

\* _rebuild_search_index: lines 204-218
_rebuild_search_index(cl) ==
    LET indexed == SelectSeq(cl, LAMBDA c : get_effective_embedding(c) # None)
    IN  [path_index |-> [i \in DOMAIN indexed |-> indexed[i].path],
         matrix     |-> [i \in DOMAIN indexed |-> get_effective_embedding(indexed[i])]]

\* np.vstack (line 216) raises for rows of different lengths
np_vstack_raises(embeddings) ==
    \E i, j \in DOMAIN embeddings : Len(embeddings[i]) # Len(embeddings[j])

\* AtlasService.save: lines 295-306.  exists and parses tell a file that is
\* there and holds JSON
atlas_saved(cl) == [exists |-> TRUE, parses |-> TRUE, version |-> 2, clusters |-> cl]

RECURSIVE Denominator(_)
Denominator(v) ==
    IF v = <<>> THEN 1
    ELSE (Head(v).d * Denominator(Tail(v))) \div GCD(Head(v).d, Denominator(Tail(v)))

\* a vector of numbers scaled to integers (the cosine ignores the scale)
Whole(v) == [i \in DOMAIN v |-> v[i].n * (Denominator(v) \div v[i].d)]

\* (None, 0.0)
NoMatch == [folder |-> "None", score |-> Fraction(0, 1)]

\* variant: every best score is accepted
clears_always(best_score, threshold) == TRUE

\* line 262: best_score >= threshold
clears(best_score, threshold) == ~ Greater(threshold, best_score)

\* find_best_folder: lines 220-268.  The 1e-8 added to the norms (line 257)
\* only shows for a zero vector, whose similarity is 0.
found(matrix, path_index, file_embedding, fallback_text, threshold) ==
    IF matrix = None \/ Len(path_index) = 0
    THEN NoMatch
    ELSE IF file_embedding = None /\ fallback_text = ""
    THEN NoMatch
    ELSE LET query_vec    == IF file_embedding # None THEN file_embedding
                             ELSE encode(fallback_text).vec[1]       \* flatten()
             similarities == [i \in DOMAIN matrix |-> cos_sim(Whole(matrix[i]), query_vec)]
             best_idx     == argmax(similarities)
             best_score   == similarities[best_idx]
         IN  IF clears(best_score, threshold)
             THEN [folder |-> path_index[best_idx], score |-> best_score]
             ELSE [folder |-> "None", score |-> best_score]

(* Inputs *)

MaxSamples == 4

AtlasFolders == {"Docs", "Music"}

FileEmbeddings == {UnitVec(1, Dim), Slanted}

\* the (file_embedding, fallback_text) arguments of find_best_folder
AtlasQueries ==
    {<<None, "">>, <<None, "Music">>, <<UnitVec(1, Dim), "Music">>, <<Slanted, "Music">>}

RECURSIVE SamplesIn(_)
SamplesIn(cl) == IF cl = <<>> THEN 0 ELSE Head(cl).n_files + SamplesIn(Tail(cl))

\* threshold 0.75 is EventProcessor's for a suggested folder name, 0.6 is a
\* cosine the FileEmbeddings reach exactly
AtlasThresholds == {Cosine(3, 4), Cosine(3, 5)}

NoHistory == [sample |-> <<>>, updates |-> <<>>]

\* scans counts the scan() calls of the operation, index is the file it read,
\* raised tells that it ended with an exception
NoAtlasCall == [op |-> "none", folder |-> "", file_embedding |-> None,
                fallback_text |-> "", threshold |-> Fraction(0, 1), ret |-> NoMatch,
                scans |-> 0, index |-> None, raised |-> FALSE]

\* _rebuild_search_index() followed by save(): the path index is assigned
\* before np.vstack, whose exception leaves the matrix and the file as they were
SetAtlas(cl) ==
    /\ clusters' = cl
    /\ _path_index' = _rebuild_search_index(cl).path_index
    /\ IF np_vstack_raises(_rebuild_search_index(cl).matrix)
       THEN UNCHANGED <<_embedding_matrix, index_file>>
       ELSE /\ _embedding_matrix' = _rebuild_search_index(cl).matrix
            /\ index_file' = atlas_saved(cl)

\* initialize() without an index file: scan() finds the folder Docs, embeds
\* its name and averages the embeddings of the files sampled in it
AtlasInitialized ==
    \E sample \in {<<>>, <<UnitVec(1, Dim), Slanted>>} :
        LET cl == <<_compute_folder_centroid(
                      FolderCluster("Docs", None, Exact(encode("Docs").vec[1]), 0), sample)>>
        IN  /\ clusters = cl
            /\ _embedding_matrix = _rebuild_search_index(cl).matrix
            /\ _path_index = _rebuild_search_index(cl).path_index
            /\ index_file = atlas_saved(cl)
            /\ averaged = [f \in AtlasFolders |->
                             IF f = "Docs" THEN [NoHistory EXCEPT !.sample = sample]
                             ELSE NoHistory]
            /\ atlast = NoAtlasCall

Position(cl, path) == CHOOSE i \in DOMAIN cl : cl[i].path = path

\* update_cluster: lines 270-293
update_cluster(folder_path, file_embedding) ==
    /\ SamplesIn(clusters) < MaxSamples
    /\ LET known == \E i \in DOMAIN clusters : clusters[i].path = folder_path
           cl    == IF known THEN clusters
                    ELSE Append(clusters,
                                FolderCluster(folder_path, None,
                                              Exact(encode(folder_path).vec[1]), 0))
           k     == Position(cl, folder_path)
           upd   == [cl EXCEPT ![k] = update_centroid(@, file_embedding)]
       IN  /\ SetAtlas(upd)
           /\ atlast' = [NoAtlasCall EXCEPT
                           !.op = "update_cluster", !.folder = folder_path,
                           !.file_embedding = file_embedding,
                           !.raised = np_vstack_raises(_rebuild_search_index(upd).matrix)]
    /\ averaged' = [averaged EXCEPT ![folder_path].updates = Append(@, file_embedding)]
    /\ UNCHANGED outsideAtlas

find_best_folder(file_embedding, fallback_text, threshold) ==
    /\ atlast' = [NoAtlasCall EXCEPT
                    !.op = "find_best_folder", !.file_embedding = file_embedding,
                    !.fallback_text = fallback_text, !.threshold = threshold,
                    !.ret = found(_embedding_matrix, _path_index, file_embedding,
                                  fallback_text, threshold)]
    /\ UNCHANGED <<clusters, _embedding_matrix, _path_index, index_file, averaged,
                   outsideAtlas>>

NextAtlas ==
    \/ \E f \in AtlasFolders, e \in FileEmbeddings : update_cluster(f, e)
    \/ \E q \in AtlasQueries, t \in AtlasThresholds : find_best_folder(q[1], q[2], t)

(* Loading the index *)

\* FolderCluster.from_dict: models.py lines 55-62; data["path"] raises
\* KeyError for an entry without the key
from_dict_raises(entry) == "path" \notin DOMAIN entry

from_dict(entry) ==
    FolderCluster(entry.path,
                  IF entry.centroid # <<>> THEN entry.centroid ELSE None,
                  IF entry.name_embedding # <<>> THEN entry.name_embedding ELSE None,
                  entry.n_files)

\* self.clusters[folder_path] = ...: a known key keeps its place
RECURSIVE assigned(_, _)
assigned(cl, fresh) ==
    IF fresh = <<>> THEN cl
    ELSE LET c == Head(fresh)
             placed == IF \E i \in DOMAIN cl : cl[i].path = c.path
                       THEN [cl EXCEPT ![Position(cl, c.path)] = c]
                       ELSE Append(cl, c)
         IN  assigned(placed, Tail(fresh))

\* the state of the service: its clusters, its search index, the file, and
\* whether the call ended with an exception
AtlasState(cl, matrix, path_index, file, raised) ==
    [clusters |-> cl, matrix |-> matrix, path_index |-> path_index, file |-> file,
     raised |-> raised]

\* scan: lines 81-127, for the folders _discover_folders() returns and the
\* embeddings of the files sampled in each
scanned(st, discovered, sample) ==
    IF discovered = <<>> THEN st
    ELSE LET fresh == [i \in DOMAIN discovered |->
                         _compute_folder_centroid(
                             FolderCluster(discovered[i], None,
                                           Exact(encode(discovered[i]).vec[1]), 0),
                             sample)]
             cl    == assigned(st.clusters, fresh)
             r     == _rebuild_search_index(cl)
         IN  IF np_vstack_raises(r.matrix)
             THEN AtlasState(cl, st.matrix, r.path_index, st.file, TRUE)
             ELSE AtlasState(cl, r.matrix, r.path_index, atlas_saved(cl), FALSE)

\* load: lines 308-330 answer whether its except branch is taken
load_fails(file) ==
    \/ ~ file.parses
    \/ file.version >= 2
         /\ \/ \E i \in DOMAIN file.clusters : from_dict_raises(file.clusters[i])
            \/ np_vstack_raises(_rebuild_search_index(
                   [i \in DOMAIN file.clusters |-> from_dict(file.clusters[i])]).matrix)

\* the number of scan() calls load makes
load_scans(file) ==
    IF load_fails(file) \/ file.version < 2 THEN 1 ELSE 0

\* AtlasService.load: lines 308-330
atlas_loaded(st, discovered, sample) ==
    LET file == st.file
    IN  IF ~ file.parses
        THEN scanned(st, discovered, sample)
        ELSE IF file.version < 2
        THEN scanned(st, discovered, sample)
        ELSE IF \E i \in DOMAIN file.clusters : from_dict_raises(file.clusters[i])
        THEN scanned(st, discovered, sample)
        ELSE LET cl == [i \in DOMAIN file.clusters |-> from_dict(file.clusters[i])]
                 r  == _rebuild_search_index(cl)
             IN  IF np_vstack_raises(r.matrix)
                 THEN scanned(AtlasState(cl, st.matrix, r.path_index, file, FALSE),
                              discovered, sample)
                 ELSE AtlasState(cl, r.matrix, r.path_index, file, FALSE)

(* Inputs *)

DocsCluster ==
    FolderCluster("Docs", Exact(Slanted), Exact(encode("Docs").vec[1]), 3)

\* an entry without its "path" key
PathlessEntry ==
    [centroid |-> None, name_embedding |-> Exact(encode("Music").vec[1]), n_files |-> 0]

\* an entry whose name embedding has another length than the others
ShortEntry == FolderCluster("Music", None, <<Fraction(1, 1)>>, 0)

\* an entry without any embedding
BareEntry == FolderCluster("Music", None, None, 0)

NoIndexFile == [exists |-> FALSE, parses |-> FALSE, version |-> 0, clusters |-> <<>>]

IndexFiles ==
    { NoIndexFile,
      [atlas_saved(<<>>) EXCEPT !.parses = FALSE],
      [atlas_saved(<<DocsCluster>>) EXCEPT !.version = 1],
      atlas_saved(<<DocsCluster>>),
      atlas_saved(<<DocsCluster, PathlessEntry>>),
      atlas_saved(<<DocsCluster, ShortEntry>>),
      atlas_saved(<<DocsCluster, BareEntry>>) }

\* what _discover_folders() finds, and the embeddings of the files sampled
Discoveries == {<<>>, <<"Docs">>}

Samplings == {<<>>, <<UnitVec(1, Dim), Slanted>>}

\* AtlasService.__init__: lines 39-45
AtlasConstructed ==
    /\ clusters = <<>>
    /\ _embedding_matrix = None
    /\ _path_index = <<>>
    /\ index_file \in IndexFiles
    /\ averaged = [f \in AtlasFolders |-> NoHistory]
    /\ atlast = NoAtlasCall

\* initialize: lines 73-78
initialize(discovered, sample) ==
    /\ LET st  == AtlasState(clusters, _embedding_matrix, _path_index, index_file, FALSE)
           end == IF index_file.exists THEN atlas_loaded(st, discovered, sample)
                  ELSE scanned(st, discovered, sample)
       IN  /\ clusters' = end.clusters
           /\ _embedding_matrix' = end.matrix
           /\ _path_index' = end.path_index
           /\ index_file' = end.file
           /\ atlast' = [NoAtlasCall EXCEPT
                           !.op = "initialize", !.index = index_file,
                           !.scans = IF index_file.exists THEN load_scans(index_file) ELSE 1,
                           !.raised = end.raised]
           /\ averaged' = IF end.clusters = clusters THEN averaged
                          ELSE [f \in AtlasFolders |->
                                  IF \E i \in DOMAIN discovered : discovered[i] = f
                                     /\ (index_file.exists => load_scans(index_file) = 1)
                                  THEN [NoHistory EXCEPT !.sample = sample]
                                  ELSE NoHistory]
    /\ UNCHANGED outsideAtlas

NextAtlasLoad ==
    \/ \E d \in Discoveries, s \in Samplings : initialize(d, s)
    \/ \E f \in AtlasFolders, e \in FileEmbeddings : update_cluster(f, e)
    \/ \E q \in AtlasQueries, t \in AtlasThresholds : find_best_folder(q[1], q[2], t)

----------------------------------------------------------------------------
(* SessionManager (services/clustering.py) *)

FileEvent(category, timestamp) == [category |-> category, timestamp |-> timestamp]

\* add_event: lines 23-27, on a deque(maxlen)
event_added(h, category, t) ==
    IF category = "Unknown" THEN h
    ELSE LET grown == Append(h, FileEvent(category, t))
         IN  IF Len(grown) > maxlen THEN Tail(grown) ELSE grown

\* variant: an event as old as the window still counts
is_recent_inclusive(e, t) == t - e.timestamp <= window

\* line 37: now - e.timestamp < self.window
is_recent(e, t) == t - e.timestamp < window

\* get_current_session_context: lines 29-52
get_current_session_context(h, t) ==
    LET recent_events == SelectSeq(h, LAMBDA e : is_recent(e, t))
        counts(cat)   == Len(SelectSeq(recent_events, LAMBDA e : e.category = cat))
    IN  [cat \in {recent_events[i].category : i \in DOMAIN recent_events} |->
            Ratio(counts(cat), Len(recent_events))]

SessionCategories == {"Documents", "Images", "Unknown"}

NoSessionCall == [op |-> "none", at |-> 0, history |-> <<>>, ret |-> <<>>]

SessionConstructed ==
    /\ now = 0
    /\ history = <<>>
    /\ sesslast = NoSessionCall

Tick ==
    /\ now < MaxTime
    /\ now' = now + 1
    /\ UNCHANGED <<execVars, guard, memVars, atlasVars, sessVars, voteVars, procVars>>

add_event(category) ==
    /\ history' = event_added(history, category, now)
    /\ sesslast' = [NoSessionCall EXCEPT !.op = "add_event", !.at = now, !.history = history]
    /\ UNCHANGED <<now, outsideSession>>

session_context ==
    /\ sesslast' = [op |-> "get_current_session_context", at |-> now, history |-> history,
                    ret |-> get_current_session_context(history, now)]
    /\ UNCHANGED <<now, history, outsideSession>>

NextSession ==
    \/ Tick
    \/ \E category \in SessionCategories : add_event(category)
    \/ session_context

----------------------------------------------------------------------------
(* VotingEngine (services/pipeline.py) and its voters
   (core/classification/voters.py).  Weights, confidences and scores are
   exact numbers in lowest terms. *)

Plus(x, y) == Ratio(x.n * y.d + y.n * x.d, x.d * y.d)

Times(x, y) == Ratio(x.n * y.n, x.d * y.d)

\* self.voters, in the order the futures are submitted and collected
voters == <<"FileType", "Semantic", "History", "Session">>

\* the weight attribute of each voter class
weight(voter) ==
    CASE voter = "FileType" -> Fraction(3, 10)
      [] voter = "Semantic" -> Fraction(3, 5)
      [] voter = "History"  -> Fraction(4, 5)
      [] voter = "Session"  -> Fraction(1, 2)
      [] voter = "NLI"      -> Fraction(9, 10)

\* what a vote() call comes to: a (category, confidence) pair or an exception
Opinion(category, confidence) ==
    [kind |-> "vote", category |-> category, confidence |-> confidence]

Abstains == Opinion("Unknown", Fraction(0, 1))

Raised == [kind |-> "raise", category |-> "Unknown", confidence |-> Fraction(0, 1)]

\* SessionVoter.vote on the distribution of the session context
SessionVoter_vote(context_dist) ==
    IF DOMAIN context_dist = {} THEN Abstains
    ELSE LET best_cat == CHOOSE c \in DOMAIN context_dist :
                             \A d \in DOMAIN context_dist :
                                 ~ Greater(context_dist[d], context_dist[c])
             confidence == context_dist[best_cat]
         IN  IF Greater(confidence, Fraction(1, 2))
             THEN Opinion(best_cat,
                          IF Greater(confidence, Fraction(9, 10)) THEN Fraction(9, 10)
                          ELSE confidence)
             ELSE Abstains

\* FileTypeVoter.vote: by MIME type or extension; an exception of vote()
\* surfaces in future.result()
FileTypeOutcomes == {Opinion("Images", Fraction(9, 10)), Abstains, Raised}

\* SemanticVoter.vote: nothing without text, else what classify_by_keywords
\* finds (it swallows its own failures)
SemanticOutcomes(text) ==
    IF text THEN {Opinion("Documents", Fraction(1, 1)), Abstains} ELSE {Abstains}

\* HistoryVoter.vote: nothing without text, else what memory.recall finds
\* above 0.70 (it swallows its own failures)
HistoryOutcomes(text) ==
    IF text THEN {Opinion("Documents", Fraction(3, 4)), Abstains} ELSE {Abstains}

SessionOutcomes(h, t) == {SessionVoter_vote(get_current_session_context(h, t)), Raised}

\* variant: the exception of a voter is let through
future_result_unguarded(outcome) == outcome

\* pipeline.py lines 58-63: the exception of a voter is logged and the voter
\* counts as having no opinion
future_result(outcome) == IF outcome.kind = "raise" THEN Abstains ELSE outcome

Ballot(voter, category, confidence) ==
    [voter |-> voter, category |-> category, confidence |-> confidence]

\* lines 55-63: the votes that are not "Unknown", in the order of self.voters
collected(results) ==
    SelectSeq([i \in DOMAIN voters |->
                  Ballot(voters[i], results[voters[i]].category,
                         results[voters[i]].confidence)],
              LAMBDA b : b.category # "Unknown")

\* lines 109-118: the scoreboard, a dict in insertion order
RECURSIVE scoreboard(_)
scoreboard(vs) ==
    IF vs = <<>> THEN <<>>
    ELSE LET board == scoreboard(Front(vs))
             v     == vs[Len(vs)]
             score == Times(weight(v.voter), v.confidence)
         IN  IF \E i \in DOMAIN board : board[i].category = v.category
             THEN [i \in DOMAIN board |->
                      IF board[i].category = v.category
                      THEN [board[i] EXCEPT !.score = Plus(@, score)]
                      ELSE board[i]]
             ELSE Append(board, [category |-> v.category, score |-> score])

Verdict(winner, confidence, method) ==
    [winner |-> winner, confidence |-> confidence, method |-> method]

\* variant: the winner's sum is returned as it is
_arbitrate_uncapped(vs) ==
    IF vs = <<>> THEN Verdict("Unknown", Fraction(0, 1), "none")
    ELSE LET board  == scoreboard(vs)
             winner == argmax([i \in DOMAIN board |-> board[i].score])
         IN  Verdict(board[winner].category, board[winner].score, "none")

\* _arbitrate: lines 101-129; max() takes the first category of the
\* scoreboard that holds the largest sum
_arbitrate(vs) ==
    IF vs = <<>> THEN Verdict("Unknown", Fraction(0, 1), "none")
    ELSE LET board     == scoreboard(vs)
             winner    == argmax([i \in DOMAIN board |-> board[i].score])
             raw_score == board[winner].score
         IN  Verdict(board[winner].category,
                     IF Greater(raw_score, Fraction(1, 1)) THEN Fraction(1, 1)
                     ELSE raw_score,
                     "none")

\* line 72
NLI_THRESHOLD == Fraction(3, 5)

\* variant: a confidence equal to the threshold escalates too
escalates_at_threshold(v, text) ==
    (v.winner = "Unknown" \/ ~ Greater(v.confidence, NLI_THRESHOLD)) /\ text

\* line 74
escalates(v, text) ==
    (v.winner = "Unknown" \/ Greater(NLI_THRESHOLD, v.confidence)) /\ text

\* what _predict_batch comes to: the best hypothesis and its score, or an
\* exception
Prediction(best_idx, best_score) ==
    [kind |-> "scores", best_idx |-> best_idx, best_score |-> best_score]

PredictionFails == [kind |-> "raise", best_idx |-> 0, best_score |-> Fraction(0, 1)]

\* NLIClassifier.reason_placement: nli.py lines 115-138
reason_placement(existing_folders, prediction) ==
    IF existing_folders = <<>> THEN "Unknown"
    ELSE IF prediction.kind = "raise" THEN "Unknown"
    ELSE IF Greater(prediction.best_score, Fraction(1, 2))
         THEN existing_folders[prediction.best_idx]
         ELSE "Unknown"

\* NLIVoter.vote: voters.py lines 113-122
NLIVoter_vote(text, candidates, prediction) ==
    IF ~ text THEN Abstains
    ELSE LET cat == reason_placement(candidates, prediction)
         IN  IF cat # "Unknown" THEN Opinion(cat, Fraction(17, 20)) ELSE Abstains

\* the keys of settings.CATEGORY_MAP and what the NLI model makes of them
NLIInputs ==
    {<< <<>>, PredictionFails >>,
     << <<"Images">>, PredictionFails >>,
     << <<"Images">>, Prediction(1, Fraction(9, 10)) >>,
     << <<"Images">>, Prediction(1, Fraction(1, 2)) >>}

NoBallots == <<>>

NoTrail ==
    [first |-> Verdict("Unknown", Fraction(0, 1), "none"), votes |-> NoBallots,
     nli_calls |-> 0, nli_failed |-> FALSE, nli |-> Abstains]

\* no request has been made
VotingIdle ==
    /\ vpc = "idle"
    /\ context = [text |-> FALSE]
    /\ futures = [i \in {} |-> Abstains]
    /\ votes = NoBallots
    /\ verdict = Verdict("Unknown", Fraction(0, 1), "none")
    /\ trail = NoTrail

\* process_file, lines 36-63: the file is enriched, every voter is run on the
\* pool and the votes are collected
Vote(text, outcomes) ==
    /\ vpc \in {"idle", "returned"}
    /\ context' = [text |-> text]
    /\ futures' = outcomes
    /\ LET results == [v \in DOMAIN outcomes |-> future_result(outcomes[v])]
       IN  IF \E v \in DOMAIN results : results[v].kind = "raise"
           THEN /\ vpc' = "aborted"
                /\ votes' = NoBallots
           ELSE /\ vpc' = "voted"
                /\ votes' = collected(results)
    /\ verdict' = Verdict("Unknown", Fraction(0, 1), "none")
    /\ trail' = NoTrail
    /\ UNCHANGED <<now, sessVars, outsideVoting>>

\* lines 65-74: the first arbitration and the decision to escalate
Arbitrate ==
    /\ vpc = "voted"
    /\ verdict' = [_arbitrate(votes) EXCEPT !.method = "voting_ensemble"]
    /\ trail' = [trail EXCEPT !.first = verdict', !.votes = votes]
    /\ vpc' = IF escalates(verdict', context.text) THEN "nli" ELSE "learn"
    /\ UNCHANGED <<context, futures, votes, now, sessVars, outsideVoting>>

\* lines 75-82: the NLI voter is asked and, when it has an opinion, its vote
\* is appended and the votes are arbitrated again
Escalate(candidates, prediction) ==
    /\ vpc = "nli"
    /\ LET nli == NLIVoter_vote(context.text, candidates, prediction)
       IN  /\ trail' = [trail EXCEPT !.nli_calls = @ + 1, !.nli = nli,
                            !.nli_failed = (candidates # <<>> /\ prediction.kind = "raise")]
           /\ IF nli.category # "Unknown"
              THEN /\ votes' = Append(votes, Ballot("NLI", nli.category, nli.confidence))
                   /\ verdict' = [_arbitrate(votes') EXCEPT
                                     !.method = "voting_ensemble_with_nli"]
              ELSE UNCHANGED <<votes, verdict>>
    /\ vpc' = "learn"
    /\ UNCHANGED <<context, futures, now, sessVars, outsideVoting>>

\* lines 84-99: the winner is added to the session and the result returned
Learn ==
    /\ vpc = "learn"
    /\ history' = IF verdict.winner # "Unknown"
                  THEN event_added(history, verdict.winner, now)
                  ELSE history
    /\ vpc' = "returned"
    /\ UNCHANGED <<context, futures, votes, verdict, trail, now, sesslast, outsideVoting>>

\* the requests of one session window: the clock stands still (the expiry of
\* events is the subject of SpecSession)
NextVoting ==
    \/ \E text \in BOOLEAN :
         \E ft \in FileTypeOutcomes, se \in SemanticOutcomes(text),
            hi \in HistoryOutcomes(text), ss \in SessionOutcomes(history, now) :
             Vote(text, [v \in {"FileType", "Semantic", "History", "Session"} |->
                            CASE v = "FileType" -> ft
                              [] v = "Semantic" -> se
                              [] v = "History"  -> hi
                              [] v = "Session"  -> ss])
    \/ Arbitrate
    \/ \E i \in NLIInputs : Escalate(i[1], i[2])
    \/ Learn

----------------------------------------------------------------------------
(* EventProcessor (application/processor.py): the consumer thread run(), the *)
(* watcher's put (controller.py _on_file_created) and the UI's pause(),      *)
(* resume() and stop().  One step of a thread is one read or write of the    *)
(* shared flags or of the queue.                                             *)

MaxPuts == 2

QueuedPaths == {"a.pdf", "b.pdf"}

NoQueued == ""

\* variant: the newest path is taken first
get_newest(q) == [item |-> q[Len(q)], rest |-> SubSeq(q, 1, Len(q) - 1)]

\* queue.Queue.get on a queue that holds a path: the oldest one
get(q) == [item |-> Head(q), rest |-> Tail(q)]

\* variant: the loop does not poll the stop flag
loops_forever(flag) == TRUE

\* line 42: while self.running
loops(flag) == flag

\* variant: "Unsorted" files feed the memory too
feeds_back_unsorted(category) == category # "Unknown"

\* line 173: category != "Unknown" and category != "Unsorted"
feeds_back(category) == category # "Unknown" /\ category # "Unsorted"

\* classifier.py line 153: " ".join(keywords)
RECURSIVE join(_)
join(keywords) ==
    IF keywords = <<>> THEN ""
    ELSE IF Len(keywords) = 1 THEN keywords[1]
    ELSE keywords[1] \o " " \o join(Tail(keywords))

\* Classifier.learn: classifier.py lines 147-158; model_fails is whether
\* _ensure_initialized() or model.encode raises, which line 157 catches
Classifier_learn(m, keywords, category, model_fails) ==
    IF keywords = <<>> \/ category = "Unknown" THEN m
    ELSE IF model_fails THEN m
    ELSE learned(m.data, m.cache, m.file, join(keywords), category, encode(join(keywords)))

\* whether Classifier.learn reaches memory.learn
reaches_memory(keywords, category, model_fails) ==
    keywords # <<>> /\ category # "Unknown" /\ ~ model_fails

(* Inputs *)

\* the pipeline's result: category, keywords and embedding
ResultCategories == {"Docs", "Unknown", "Unsorted"}

ResultKeywords == {<<>>, <<"k", "x">>}

ResultEmbeddings == {None, UnitVec(1, Dim)}

\* lines 100-101 and 157-160: where a file goes that no known folder matches
target_of(category) ==
    IF category = "Unknown" \/ category = "Unsorted" THEN "_Needs_Review" ELSE category

NoProcessed == [path |-> NoQueued, category |-> "", keywords |-> <<>>, embedding |-> None,
                target_folder |-> "", moved |-> FALSE, learn_called |-> FALSE,
                learn_failed |-> FALSE, data_before |-> <<>>]

NoRecord == [put |-> <<>>, taken |-> <<>>, after_stop |-> 0]

\* EventProcessor.__init__ (lines 13-25) with an empty queue
ProcessorConstructed ==
    /\ queue = <<>>
    /\ running = TRUE
    /\ paused = FALSE
    /\ resources \in BOOLEAN
    /\ ppc = "while"
    /\ inflight = NoQueued
    /\ plast = NoProcessed
    /\ record = NoRecord

\* the processor before its thread is started
ProcessorUnused ==
    /\ queue = <<>>
    /\ running = TRUE
    /\ paused = FALSE
    /\ resources = TRUE
    /\ ppc = "while"
    /\ inflight = NoQueued
    /\ plast = NoProcessed
    /\ record = NoRecord

outsideProcessor == <<execVars, guard, atlasVars, now, sessVars, voteVars>>

(* The watcher thread, the UI thread and the machine *)

\* SortifyController._on_file_created: controller.py lines 76-80
put(path) ==
    /\ Len(record.put) < MaxPuts
    /\ queue' = Append(queue, path)
    /\ record' = [record EXCEPT !.put = Append(@, path)]
    /\ UNCHANGED <<running, paused, resources, ppc, inflight, plast, memVars,
                   outsideProcessor>>

\* pause: lines 27-29
pause ==
    /\ paused' = TRUE
    /\ UNCHANGED <<queue, running, resources, ppc, inflight, plast, record, memVars,
                   outsideProcessor>>

\* resume: lines 31-33
resume ==
    /\ paused' = FALSE
    /\ UNCHANGED <<queue, running, resources, ppc, inflight, plast, record, memVars,
                   outsideProcessor>>

\* stop: lines 35-36
stop ==
    /\ running' = FALSE
    /\ UNCHANGED <<queue, paused, resources, ppc, inflight, plast, record, memVars,
                   outsideProcessor>>

\* the battery or the free memory crosses the limits of ResourceGuard.check
resources_change ==
    /\ resources' = ~ resources
    /\ UNCHANGED <<queue, running, paused, ppc, inflight, plast, record, memVars,
                   outsideProcessor>>

(* The consumer thread: run(), lines 38-58 *)

\* line 42: while self.running
run_while ==
    /\ ppc = "while"
    /\ ppc' = IF loops(running) THEN "if_paused" ELSE "exited"
    /\ UNCHANGED <<queue, running, paused, resources, inflight, plast, record, memVars,
                   outsideProcessor>>

\* lines 43-45: if self.paused: sleep, continue
run_if_paused ==
    /\ ppc = "if_paused"
    /\ ppc' = IF paused THEN "while" ELSE "check"
    /\ UNCHANGED <<queue, running, paused, resources, inflight, plast, record, memVars,
                   outsideProcessor>>

\* lines 47-49: if not resource_guard.check(): sleep, continue
run_check ==
    /\ ppc = "check"
    /\ ppc' = IF ~ resources THEN "while" ELSE "get"
    /\ UNCHANGED <<queue, running, paused, resources, inflight, plast, record, memVars,
                   outsideProcessor>>

\* line 52: self.queue.get(timeout=1.0); an empty queue ends in queue.Empty
\* (lines 55-56)
run_get ==
    /\ ppc = "get"
    /\ IF queue = <<>>
       THEN /\ ppc' = "while"
            /\ UNCHANGED <<queue, inflight, record>>
       ELSE /\ ppc' = "process_file"
            /\ inflight' = get(queue).item
            /\ queue' = get(queue).rest
            /\ record' = [record EXCEPT
                            !.taken = Append(@, get(queue).item),
                            !.after_stop = IF running THEN @ ELSE @ + 1]
    /\ UNCHANGED <<running, paused, resources, plast, memVars, outsideProcessor>>

\* line 53: self.process_file(file_path) from its call to its return (lines
\* 60-187), then task_done().  The classification (category, keywords,
\* embedding) and what safe_move answers are inputs; moved is FALSE also when
\* process_file returns or fails before the move.  No folder of the Atlas
\* matches, so the file goes to the folder of its category.
run_process_file(category, keywords, embedding, moved, model_fails) ==
    /\ ppc = "process_file"
    /\ LET called == moved /\ feeds_back(category) /\ keywords # <<>>
           m      == MemState(data, embeddings_cache, memory_file)
       IN  /\ SetMemory(IF called THEN Classifier_learn(m, keywords, category, model_fails)
                        ELSE m)
           /\ memlast' = IF called /\ reaches_memory(keywords, category, model_fails)
                         THEN [NoMemCall EXCEPT
                                 !.op = "learn", !.text = join(keywords),
                                 !.category = category,
                                 !.embedding = encode(join(keywords)), !.before = data]
                         ELSE memlast
           /\ plast' = [path |-> inflight, category |-> category, keywords |-> keywords,
                        embedding |-> embedding, target_folder |-> target_of(category),
                        moved |-> moved, learn_called |-> called,
                        learn_failed |-> called /\ model_fails,
                        data_before |-> data]
    /\ ppc' = "while"
    /\ inflight' = NoQueued
    /\ UNCHANGED <<queue, running, paused, resources, record, outsideProcessor>>

consumer ==
    \/ run_while
    \/ run_if_paused
    \/ run_check
    \/ run_get
    \/ \E category \in ResultCategories, keywords \in ResultKeywords,
          embedding \in ResultEmbeddings, moved \in BOOLEAN, model_fails \in BOOLEAN :
            run_process_file(category, keywords, embedding, moved, model_fails)

NextProcessor ==
    \/ \E path \in QueuedPaths : put(path)
    \/ pause
    \/ resume
    \/ stop
    \/ resources_change
    \/ run_while
    \/ run_if_paused
    \/ run_check
    \/ run_get
    \/ \E category \in ResultCategories, keywords \in ResultKeywords,
          embedding \in ResultEmbeddings, moved \in BOOLEAN, model_fails \in BOOLEAN :
            run_process_file(category, keywords, embedding, moved, model_fails)

----------------------------------------------------------------------------
(* The specifications *)

Next ==
    \/ \E p \in InputPaths : FileCreated(p)
    \/ \E src \in DOMAIN fs \cup {MissingPath}, d \in Folders, n \in NewNames :
           SafeMoveCall(src, d, n)
    \/ SafeMoveShutil
    \/ SafeMoveShutilFails
    \/ SafeMoveLog
    \/ \E ok \in BOOLEAN : undo_last(ok)
    \/ \E src \in DOMAIN fs \cup {MissingPath}, d \in Folders :
           ExecuteMoveCall(src, JoinPath(d, NameOf(src)))
    \/ ExecuteMoveShutil
    \/ \E mkdir_done \in BOOLEAN : ExecuteMoveShutilFails(mkdir_done)
    \/ ExecuteMoveFinalize
    \/ \E status \in {"pending", "failed"} : ExecuteMoveFinalizeFails(status)
    \/ Restart

\* files arrive in the download folder; every folder is watched
NextGuard ==
    \/ Tick
    \/ FileCreated(MissingPath)
    \/ \E file_path \in DOMAIN fs \cup {MissingPath} : process_file(file_path)
    \/ \E target_folder \in Folders : process_file_move(target_folder)
    \/ SafeMoveShutil
    \/ SafeMoveShutilFails
    \/ SafeMoveLog

NextMemory ==
    \/ \E text \in Texts, category \in Categories, embedding \in EmbeddingInputs :
           learn(text, category, embedding)
    \/ \E model_ready \in BOOLEAN : load(model_ready)

NextRecall ==
    \/ \E e \in RecallExamples : learn(e.text, e.category, e.embedding)
    \/ \E model_ready \in BOOLEAN : load(model_ready)
    \/ \E query \in Queries, threshold \in Thresholds : recall(query, threshold)

\* the memory before anything was stored
MemoryUnused ==
    /\ data = <<>>
    /\ embeddings_cache = NoCache
    /\ memory_file = NoFile
    /\ memlast = NoMemCall

\* the executors before any file has appeared
ExecutorsUnused ==
    /\ InitExecutors
    /\ DRY_RUN = FALSE
    /\ mover = "Executor"

\* the Atlas before initialize()
AtlasUnused ==
    /\ clusters = <<>>
    /\ _embedding_matrix = None
    /\ _path_index = <<>>
    /\ index_file = atlas_saved(<<>>)
    /\ averaged = [f \in AtlasFolders |-> NoHistory]
    /\ atlast = NoAtlasCall

Init == InitExecutors /\ MemoryUnused /\ AtlasUnused /\ SessionConstructed /\ VotingIdle /\ ProcessorUnused

InitMemory == MemoryConstructed /\ ExecutorsUnused /\ AtlasUnused /\ SessionConstructed /\ VotingIdle /\ ProcessorUnused

InitAtlas == AtlasInitialized /\ ExecutorsUnused /\ MemoryUnused /\ SessionConstructed /\ VotingIdle /\ ProcessorUnused

InitAtlasLoad == AtlasConstructed /\ ExecutorsUnused /\ MemoryUnused /\ SessionConstructed /\ VotingIdle /\ ProcessorUnused

InitProcessor == ProcessorConstructed /\ MemoryUnused /\ ExecutorsUnused /\ AtlasUnused /\ SessionConstructed /\ VotingIdle

InitSession == SessionConstructed /\ ExecutorsUnused /\ MemoryUnused /\ AtlasUnused /\ VotingIdle /\ ProcessorUnused

InitGuard == ExecutorsUnused /\ MemoryUnused /\ AtlasUnused /\ SessionConstructed /\ VotingIdle /\ ProcessorUnused

InitVoting == VotingIdle /\ SessionConstructed /\ ExecutorsUnused /\ MemoryUnused /\ AtlasUnused /\ ProcessorUnused

Spec == Init /\ [][Next]_vars

SpecMemory == InitMemory /\ [][NextMemory]_vars

SpecRecall == InitMemory /\ [][NextRecall]_vars

SpecAtlas == InitAtlas /\ [][NextAtlas]_vars

SpecAtlasLoad == InitAtlasLoad /\ [][NextAtlasLoad]_vars

SpecProcessor == InitProcessor /\ [][NextProcessor]_vars

\* the consumer is a thread of its own, which the scheduler keeps running
SpecProcessorFair == InitProcessor /\ [][NextProcessor]_vars /\ WF_vars(consumer)

SpecSession == InitSession /\ [][NextSession]_vars

SpecVoting == InitVoting /\ [][NextVoting]_vars

SpecGuard == InitGuard /\ [][NextGuard]_vars

----------------------------------------------------------------------------
(* Properties of the move executors *)

MoveOps == {"safe_move", "execute_move"}

\* final is dest when dest is free, else dest's stem with _vK for the
\* smallest K >= first whose name is free
SmallestFree(dest, final, files, first) ==
    IF dest \notin files
    THEN final = dest
    ELSE \E K \in first..(first + Cardinality(files)) :
            /\ final = Versioned(dest, K)
            /\ final \notin files
            /\ \A j \in first..(K - 1) : Versioned(dest, j) \in files

\* the entry of the persisted Executor log for the move in flight
LoggedInFile(src, final) ==
    \E i \in DOMAIN txfile : txfile[i].src = src /\ txfile[i].dest = final

\* C1 as stated: in both implementations the resolved destination is the
\* literal path when it is free and otherwise <stem>_vK<suffix> with the
\* smallest free K >= 2.
C1_CollisionFromV2 ==
    /\ pc \in {"sm_move", "ex_move"}
          => SmallestFree(cur.dest, cur.final, DOMAIN fs, 2)
    /\ (last.op = "safe_move" /\ last.ret = "true" /\ ~ last.moved)
          => SmallestFree(last.dest, last.final, DOMAIN fs, 2)

\* C1 amended: Executor._get_safe_dest resolves to the literal path when it
\* is free and otherwise to the smallest free _vK with K >= 2;
\* ExecutionService._resolve_collision does the same with K >= 1 (its
\* first collision gives _v1).
C1_CollisionResolution ==
    /\ pc = "sm_move" => SmallestFree(cur.dest, cur.final, DOMAIN fs, 2)
    /\ (last.op = "safe_move" /\ last.ret = "true" /\ ~ last.moved)
          => SmallestFree(last.dest, last.final, DOMAIN fs, 2)
    /\ pc = "ex_move" => SmallestFree(cur.dest, cur.final, DOMAIN fs, 1)

\* a third file of the same name resolves to _v3
C1_Witness ==
    /\ pc = "sm_move"
    /\ cur.dest \in DOMAIN fs
    /\ Versioned(cur.dest, 2) \in DOMAIN fs
    /\ cur.final = Versioned(cur.dest, 3)

C3_RecordBeforeMove ==
    /\ pc = "sm_log" => LoggedInFile(cur.src, cur.final)
    /\ pc = "ex_final"
          => /\ cur.tx \in DOMAIN db
             /\ db[cur.tx].src_path = cur.src
             /\ db[cur.tx].dest_path = cur.final
    /\ pc = "ex_move"
          => /\ cur.tx \in DOMAIN db
             /\ db[cur.tx].status = "pending"
             /\ cur.final \notin DOMAIN fs

\* the record of the move that just returned, in status failed
FailedRecordOfLast ==
    IF last.op = "execute_move"
    THEN /\ db # <<>>
         /\ db[Len(db)].src_path = last.src
         /\ db[Len(db)].dest_path = last.final
         /\ db[Len(db)].status = "failed"
    ELSE \E i \in DOMAIN txfile :
            /\ txfile[i].src = last.src
            /\ txfile[i].dest = last.final
            /\ "status" \in DOMAIN txfile[i]
            /\ txfile[i].status = "failed"

\* the source file of the call that just returned is where it was
SourceUntouched ==
    last.src \in DOMAIN last.pre_fs
        => last.src \in DOMAIN fs /\ fs[last.src] = last.pre_fs[last.src]

\* C4 as stated: when the filesystem step of a move fails, the move's
\* record ends in status failed, the caller is told, and the source file is
\* still at its original path.
C4_FailedMove ==
    (last.op \in MoveOps /\ last.fs_failed)
        => /\ FailedRecordOfLast
           /\ last.ret \in {"false", "raised"}
           /\ SourceUntouched

\* C5 as stated, for the row of the execute_move that just ended: status
\* failed implies the file is at its source path and not at the recorded
\* destination; the row is committed exactly when the file was moved there.
C5_NoPartialState ==
    (last.op = "execute_move" /\ db # <<>>)
        => LET row == db[Len(db)]
           IN  /\ row.status = "failed"
                    => SourceUntouched /\ row.dest_path \notin DOMAIN fs
               /\ row.status = "committed" <=> last.moved

\* an undo_last step
UndoStep == mover = "Executor" /\ pc = "idle" /\ last'.op = "undo_last"

\* C6: undo_last on an empty in-memory log returns false and changes
\* neither the filesystem, nor the list, nor the persisted log.
C6_UndoEmpty ==
    [][(UndoStep /\ transactions = <<>>)
         => /\ last'.ret = "false"
            /\ fs' = fs /\ dirs' = dirs
            /\ transactions' = transactions
            /\ txfile' = txfile]_vars

\* undo_last was called on an empty list while the persisted log and the
\* filesystem were not empty
C6_Witness ==
    /\ last.op = "undo_last"
    /\ last.src = NoPath
    /\ transactions = <<>>
    /\ txfile # <<>>
    /\ DOMAIN fs # {}

\* C7 as stated: undo_last right after a successful safe_move returns true,
\* puts the file back, and leaves the log, in memory and persisted, as it
\* was before the move; undo_last always takes the most recent entry.
C7_MoveUndoRoundTrip ==
    [][UndoStep =>
         /\ (last.op = "safe_move" /\ last.moved /\ ~ last'.fs_failed)
               => /\ last'.ret = "true"
                  /\ fs' = last.pre_fs
                  /\ transactions' = last.pre_tx
                  /\ txfile' = last.pre_txfile
         /\ transactions # <<>>
               => /\ last'.src = transactions[Len(transactions)].src
                  /\ last'.final = transactions[Len(transactions)].dest]_vars

\* C8 as stated: when the last entry's destination is gone or its source
\* exists again, undo_last returns false and changes nothing: the entry is
\* still the last one of the list and of the persisted log.
C8_FailedUndoKeepsState ==
    [][(UndoStep /\ transactions # <<>>
          /\ LET t == transactions[Len(transactions)]
             IN  t.dest \notin DOMAIN fs \/ t.src \in DOMAIN fs)
         => /\ last'.ret = "false"
            /\ fs' = fs
            /\ transactions' = transactions
            /\ txfile' = txfile]_vars

----------------------------------------------------------------------------
(* Properties of the semantic memory *)

\* the entry a learn call with these arguments stores
EntryOf(call) ==
    MemoryEntry(Take(call.text, max_text_chars), call.category,
                IF call.embedding = NoEmbedding THEN encode(call.text) ELSE call.embedding)

NoDuplicates(d) ==
    \A i, k \in DOMAIN d :
        (d[i].text = d[k].text /\ d[i].category = d[k].category) => i = k

\* C9: the memory never holds more than max_entries entries, after load and
\* after every learn; a learn that adds an entry at capacity removes exactly
\* the oldest entry and puts the new one last, the others keeping their
\* order (below capacity nothing is removed).
C9_CapacityFifo ==
    /\ Len(data) <= max_entries
    /\ (/\ memlast.op = "learn"
        /\ ~ Duplicate(memlast.before, memlast.text, memlast.category)
        /\ IndexableEmbedding(EntryOf(memlast).embedding))
          => data = Append(IF Len(memlast.before) >= max_entries
                           THEN Tail(memlast.before) ELSE memlast.before,
                           EntryOf(memlast))

\* a learn at capacity replaced the oldest entry
C9_Witness ==
    /\ memlast.op = "learn"
    /\ Len(memlast.before) = max_entries
    /\ Len(data) = max_entries
    /\ data # memlast.before
    /\ data[max_entries] = EntryOf(memlast)
    /\ \A i \in 1..(max_entries - 1) : data[i] = memlast.before[i + 1]

\* C10 as stated: learn never produces two entries with the same stored
\* text and the same category, whatever the length of the text.
C10_NoDuplicateEntries ==
    [][(memlast'.op = "learn" /\ NoDuplicates(data)) => NoDuplicates(data')]_vars

\* the stored entries whose cosine to the query is defined
Comparable(query) ==
    {i \in DOMAIN data : /\ data[i].embedding.kind = "list"
                         /\ Len(data[i].embedding.vec) = Len(query)}

\* the first stored entry with the maximum cosine to the query
Nearest(query) ==
    CHOOSE i \in Comparable(query) :
        /\ \A k \in Comparable(query) :
              ~ Greater(cos_sim(query, data[k].embedding.vec),
                        cos_sim(query, data[i].embedding.vec))
        /\ \A k \in Comparable(query) :
              k < i => Greater(cos_sim(query, data[i].embedding.vec),
                               cos_sim(query, data[k].embedding.vec))

\* C11 as stated: recall returns the category and score of the stored entry
\* with the maximum cosine to the query when that maximum is strictly greater
\* than the threshold, and (None, 0.0) otherwise (also on an empty memory).
C11_RecallNearest ==
    memlast.op = "recall"
        => IF Comparable(memlast.query) = {}
           THEN memlast.ret = NoRecall
           ELSE LET i    == Nearest(memlast.query)
                    best == cos_sim(memlast.query, data[i].embedding.vec)
                IN  IF Greater(best, memlast.threshold)
                    THEN memlast.ret = [category |-> data[i].category, score |-> best]
                    ELSE memlast.ret = NoRecall

----------------------------------------------------------------------------
(* Properties of the folder clusters *)

\* the clusters that started with a name embedding and no centroid
StartedEmpty(c) == averaged[c.path].sample = <<>> /\ c.name_embedding # None

\* C12: for a cluster that starts with a name embedding and no centroid,
\* after k update_centroid calls n_files is k, and the effective embedding
\* is the name embedding when k < 3 and the centroid when k >= 3.
C12_EffectiveEmbedding ==
    \A i \in DOMAIN clusters :
        LET c == clusters[i]
            k == Len(averaged[c.path].updates)
        IN  StartedEmpty(c)
              => /\ c.n_files = k
                 /\ k < 3 => get_effective_embedding(c) = c.name_embedding
                 /\ k >= 3 => /\ c.centroid # None
                              /\ get_effective_embedding(c) = c.centroid

\* a cluster whose third update switched it from its name embedding to a
\* different centroid
C12_Witness ==
    /\ atlast.op = "update_cluster"
    /\ \E i \in DOMAIN clusters :
          /\ clusters[i].path = atlast.folder
          /\ StartedEmpty(clusters[i])
          /\ Len(averaged[atlast.folder].updates) = 3
          /\ clusters[i].centroid # clusters[i].name_embedding
          /\ _embedding_matrix[i] = clusters[i].centroid

\* C13: the centroid is the arithmetic mean of the embeddings it was built
\* from, in whatever order they were applied: n_files is their number and
\* n_files * centroid is their sum.
C13_CentroidIsMean ==
    \A i \in DOMAIN clusters :
        LET c   == clusters[i]
            all == averaged[c.path].sample \o averaged[c.path].updates
        IN  /\ c.n_files = Len(all)
            /\ all = <<>> => c.centroid = None
            /\ all # <<>>
                 => /\ c.centroid # None
                    /\ \A j \in DOMAIN c.centroid :
                          c.centroid[j].n * c.n_files = VecSum(all)[j] * c.centroid[j].d

\* three embeddings were applied to an empty cluster, not in sorted order
C13_Witness ==
    \E i \in DOMAIN clusters :
        /\ averaged[clusters[i].path].sample = <<>>
        /\ averaged[clusters[i].path].updates = <<Slanted, UnitVec(1, Dim), Slanted>>
        /\ clusters[i].n_files = 3

\* the similarity of the query of the last find_best_folder to a cluster
ScoreOf(c) ==
    cos_sim(Whole(get_effective_embedding(c)),
            IF atlast.file_embedding # None THEN atlast.file_embedding
            ELSE encode(atlast.fallback_text).vec[1])

Indexed == {i \in DOMAIN clusters : get_effective_embedding(clusters[i]) # None}

----------------------------------------------------------------------------
(* Properties of the session context *)

\* the events of h that are younger than the window at time t
Younger(h, t) == {i \in DOMAIN h : t - h[i].timestamp < window}

RECURSIVE SumOf(_, _)
SumOf(f, keys) ==
    IF keys = {} THEN Fraction(0, 1)
    ELSE LET k    == CHOOSE x \in keys : TRUE
             rest == SumOf(f, keys \ {k})
         IN  Ratio(f[k].n * rest.d + rest.n * f[k].d, f[k].d * rest.d)

\* C18: the session context counts exactly the events younger than the
\* window: its keys are their categories, each value is the share of that
\* category among them, the values sum to 1 (the distribution is empty when
\* there is no such event); "Unknown" is never recorded and never a key; the
\* history never holds more than maxlen events.
C18_SessionContext ==
    /\ Len(history) <= maxlen
    /\ \A i \in DOMAIN history : history[i].category # "Unknown"
    /\ sesslast.op = "get_current_session_context"
         => LET h      == sesslast.history
                recent == Younger(h, sesslast.at)
                dist   == sesslast.ret
            IN  /\ DOMAIN dist = {h[i].category : i \in recent}
                /\ "Unknown" \notin DOMAIN dist
                /\ \A cat \in DOMAIN dist :
                      dist[cat].n * Cardinality(recent)
                        = Cardinality({i \in recent : h[i].category = cat}) * dist[cat].d
                /\ recent # {} => SumOf(dist, DOMAIN dist) = Fraction(1, 1)
                /\ recent = {} => dist = <<>>

\* the context was taken over a full history whose oldest event was exactly
\* as old as the window and whose younger events had two categories
C18_Witness ==
    /\ sesslast.op = "get_current_session_context"
    /\ Len(sesslast.history) = maxlen
    /\ sesslast.at - sesslast.history[1].timestamp = window
    /\ Cardinality(DOMAIN sesslast.ret) = 2

----------------------------------------------------------------------------
(* Properties of the voting engine *)

\* the request in flight has been arbitrated
Arbitrated == vpc \in {"nli", "learn", "returned"}

\* the request in flight is past the NLI step
Decided == vpc \in {"learn", "returned"}

\* the sum of weight * confidence over the votes of vs for category cat
RECURSIVE Total(_, _)
Total(vs, cat) ==
    IF vs = <<>> THEN Fraction(0, 1)
    ELSE LET rest == Total(Tail(vs), cat)
         IN  IF Head(vs).category = cat
             THEN Plus(Times(weight(Head(vs).voter), Head(vs).confidence), rest)
             ELSE rest

\* C15: the verdict of an arbitration is a function of the vote list: with no
\* votes it is ("Unknown", 0); otherwise the winner is a category of the votes
\* whose sum of weight * confidence is the largest and the confidence is that
\* sum, capped at 1; the confidence lies in [0, 1], the winner is "Unknown"
\* only when there are no votes, and arbitrating the same votes again gives
\* the same verdict.
C15_Arbitration ==
    Arbitrated =>
        LET cats == {votes[i].category : i \in DOMAIN votes}
            sum  == Total(votes, verdict.winner)
        IN  /\ votes = <<>> =>
                  verdict.winner = "Unknown" /\ verdict.confidence = Fraction(0, 1)
            /\ votes # <<>> =>
                  /\ verdict.winner \in cats
                  /\ \A c \in cats : ~ Greater(Total(votes, c), sum)
                  /\ verdict.confidence
                       = IF Greater(sum, Fraction(1, 1)) THEN Fraction(1, 1) ELSE sum
            /\ verdict.confidence.n >= 0
            /\ verdict.confidence.n <= verdict.confidence.d
            /\ verdict.winner = "Unknown" <=> votes = <<>>
            /\ [_arbitrate(votes) EXCEPT !.method = verdict.method] = verdict

\* a request returned whose votes named two categories and whose winner's sum
\* was above 1
C15_Witness ==
    /\ vpc = "returned"
    /\ Cardinality({votes[i].category : i \in DOMAIN votes}) = 2
    /\ Greater(Total(votes, verdict.winner), Fraction(1, 1))
    /\ verdict.confidence = Fraction(1, 1)

\* C16: the NLI voter is asked exactly when the first arbitration gave
\* "Unknown" or a confidence below 0.60 and the text is not empty (0.60 itself
\* does not escalate), and at most once; the votes are arbitrated again, with
\* its vote appended and the method "voting_ensemble_with_nli", exactly when
\* it was asked and its vote is not "Unknown"; otherwise the first verdict
\* stands.
C16_Escalation ==
    /\ trail.nli_calls <= 1
    /\ Decided =>
         LET first == trail.first
             unsure == \/ first.winner = "Unknown"
                       \/ 5 * first.confidence.n < 3 * first.confidence.d
             again == verdict.method = "voting_ensemble_with_nli"
         IN  /\ trail.nli_calls = 1 <=> (unsure /\ context.text)
             /\ again <=> (trail.nli_calls = 1 /\ trail.nli.category # "Unknown")
             /\ again =>
                   /\ votes = Append(trail.votes,
                                     Ballot("NLI", trail.nli.category, trail.nli.confidence))
                   /\ verdict.winner = _arbitrate(votes).winner
                   /\ verdict.confidence = _arbitrate(votes).confidence
             /\ ~ again =>
                   /\ votes = trail.votes
                   /\ verdict = trail.first
                   /\ verdict.method = "voting_ensemble"

\* a request with text returned whose first arbitration gave exactly 0.60,
\* and the NLI voter was not asked
C16_Witness ==
    /\ vpc = "returned"
    /\ context.text
    /\ trail.first.winner # "Unknown"
    /\ trail.first.confidence = Fraction(3, 5)
    /\ trail.nli_calls = 0
    /\ verdict.method = "voting_ensemble"

\* C17: a voter that raises never aborts the request and casts no vote: the
\* votes are exactly those of the fast voters that returned a category other
\* than "Unknown", followed by that of the NLI voter when it was asked, did
\* not fail and named a category; the verdict is arbitrated from these votes
\* and is ("Unknown", 0) when there are none.
C17_VoterFailures ==
    /\ vpc # "aborted"
    /\ Decided =>
         LET Cast(v) == futures[v].kind = "vote" /\ futures[v].category # "Unknown"
             fast    == {i \in DOMAIN votes : votes[i].voter # "NLI"}
         IN  /\ \A v \in DOMAIN futures :
                    Cast(v) <=> \E i \in fast : votes[i].voter = v
             /\ \A i \in fast :
                    /\ votes[i].category = futures[votes[i].voter].category
                    /\ votes[i].confidence = futures[votes[i].voter].confidence
             /\ \A i, j \in DOMAIN votes : votes[i].voter = votes[j].voter => i = j
             /\ \A i \in DOMAIN votes \ fast :
                    /\ trail.nli_calls = 1
                    /\ ~ trail.nli_failed
                    /\ trail.nli.category # "Unknown"
                    /\ votes[i] = Ballot("NLI", trail.nli.category, trail.nli.confidence)
             /\ votes = <<>> =>
                    verdict.winner = "Unknown" /\ verdict.confidence = Fraction(0, 1)
             /\ votes # <<>> =>
                    /\ verdict.winner = _arbitrate(votes).winner
                    /\ verdict.confidence = _arbitrate(votes).confidence
                    /\ verdict.winner \in {votes[i].category : i \in DOMAIN votes}

\* a request returned a category although the FileType voter had raised and
\* the NLI model had failed
C17_Witness ==
    /\ vpc = "returned"
    /\ futures["FileType"].kind = "raise"
    /\ trail.nli_calls = 1
    /\ trail.nli_failed
    /\ verdict.winner # "Unknown"

----------------------------------------------------------------------------
(* Properties of the recently-moved guard *)

\* the moves of the log txs that placed a file at path p
Placements(txs, p) == {i \in DOMAIN txs : txs[i].dest = p}

\* at time t, less than the cooldown has passed since the executor last
\* placed a file at p
RecentlyPlaced(txs, p, t) ==
    \E i \in Placements(txs, p) : t - txs[i].timestamp < _cooldown_seconds

----------------------------------------------------------------------------
(* Properties of the dry run *)

\* C20: with DRY_RUN on, a safe_move of an existing file returns true with the
\* collision-free destination it computed, and the call changes no file and
\* no folder (the destination folder is not created), neither the log in
\* memory nor the log on disk, nor the recently-moved set.
C20_DryRun ==
    [][(DRY_RUN /\ mover = "Executor" /\ pc = "idle" /\ ncalls' # ncalls)
         => /\ pc' = "idle"
            /\ last'.op = "safe_move"
            /\ last'.src \in DOMAIN fs =>
                   /\ last'.ret = "true"
                   /\ ~ last'.moved
                   /\ last'.final \notin DOMAIN fs
                   /\ SmallestFree(last'.dest, last'.final, DOMAIN fs, 2)
            /\ fs' = fs
            /\ dirs' = dirs
            /\ transactions' = transactions
            /\ txfile' = txfile
            /\ _recently_moved' = _recently_moved]_vars

\* a dry run of a move whose literal destination was taken, into a folder
\* that was taken for the second file, has returned true with the next free
\* name, and both files are where they were
C20_Witness ==
    /\ DRY_RUN
    /\ last.op = "safe_move"
    /\ last.ret = "true"
    /\ last.src \in DOMAIN fs
    /\ last.dest \in DOMAIN fs
    /\ last.final # last.dest
    /\ last.final \notin DOMAIN fs
    /\ transactions = <<>>
    /\ txfile = <<>>

----------------------------------------------------------------------------
(* Properties of what the memory stores *)

\* a flat list of numbers of the provider's dimension
WellFormed(emb) == emb.kind = "list" /\ Len(emb.vec) = Dim

\* C27 as stated: every entry a learn() adds holds a flat numeric vector of
\* the provider's dimension, and a learn() with an embedding of any other
\* shape or dimension leaves the stored entries and the index as they were.
C27_LearnValidates ==
    [][memlast'.op = "learn"
         => /\ \A i \in DOMAIN data' :
                   (\A k \in DOMAIN data : data[k] # data'[i])
                      => WellFormed(data'[i].embedding)
            /\ ~ WellFormed(EntryOf(memlast').embedding)
                   => data' = data /\ embeddings_cache' = embeddings_cache]_vars

\* C28 as stated: malformed entries are dropped, and whenever a well-formed
\* entry is stored the index is present and its rows are the embeddings of
\* the stored entries, in their order.
C28_MalformedOnlyShrink ==
    /\ \A i \in DOMAIN data : WellFormed(data[i].embedding)
    /\ (\E i \in DOMAIN data : WellFormed(data[i].embedding))
         => /\ embeddings_cache.ok
            /\ Len(embeddings_cache.rows) = Len(data)
            /\ \A i \in DOMAIN data : embeddings_cache.rows[i] = data[i].embedding

\* C30 as stated: once a learn() of a text with the embedding encode()
\* returns for it has returned, and no entry with this text and category was
\* stored before, the newest stored entry is the truncated text with the
\* category, in memory and in memory.json.
C30_LearnedIsRetained ==
    (/\ memlast.op = "learn"
     /\ memlast.embedding = NoEmbedding
     /\ ~ Duplicate(memlast.before, memlast.text, memlast.category))
      => /\ data # <<>>
         /\ data[Len(data)].text = Take(memlast.text, max_text_chars)
         /\ data[Len(data)].category = memlast.category
         /\ memory_file.present
         /\ memory_file.entries # <<>>
         /\ memory_file.entries[Len(memory_file.entries)] = data[Len(data)]

\* an entry of the index file that can be used: it has its path and an
\* embedding of the model's length
Usable(entry) ==
    /\ ~ from_dict_raises(entry)
    /\ Len(get_effective_embedding(from_dict(entry))) = Dim

\* C23: loading an index file rescans exactly when the file's version is
\* older than 2; a file of version 2 that is malformed or holds malformed
\* entries is not rescanned, it is loaded with its usable entries only.
C23_RescanOnlyOldVersion ==
    (atlast.op = "initialize" /\ atlast.index.exists)
      => /\ atlast.scans > 0 <=> (atlast.index.parses /\ atlast.index.version < 2)
         /\ (atlast.index.parses /\ atlast.index.version >= 2)
              => LET usable == SelectSeq(atlast.index.clusters, Usable)
                 IN  _path_index = [i \in DOMAIN usable |-> usable[i].path]

\* C29: once scan, load or update_cluster has returned, the path index and
\* the matrix have the same length, every cluster with an effective embedding
\* is indexed, and row i of the matrix is the effective embedding of the
\* cluster that path index i names.
C29_IndexConsistent ==
    (atlast.op \in {"initialize", "update_cluster"} /\ ~ atlast.raised)
      => LET indexed == SelectSeq(clusters, LAMBDA c : get_effective_embedding(c) # None)
         IN  /\ Len(_path_index) = Len(_embedding_matrix)
             /\ Len(_path_index) = Len(indexed)
             /\ \A i \in DOMAIN indexed :
                   /\ _path_index[i] = indexed[i].path
                   /\ i \in DOMAIN _embedding_matrix
                        => _embedding_matrix[i] = get_effective_embedding(indexed[i])

----------------------------------------------------------------------------
(* Properties of the consumer thread *)

\* the files folder has in its cluster
NFiles(cl, folder) ==
    IF \E i \in DOMAIN cl : cl[i].path = folder
    THEN cl[Position(cl, folder)].n_files
    ELSE 0

\* process_file returns in this step
Returns == ppc = "process_file" /\ ppc' = "while"

\* run() takes a path from the queue in this step
Begins == Len(record'.taken) > Len(record.taken)

\* C21: when process_file has placed a file that has an embedding into a
\* folder, the folder has a cluster with a name embedding and one file more
\* than before.
C21_AtlasFeedback ==
    [][(Returns /\ plast'.moved /\ plast'.embedding # None)
         => \E i \in DOMAIN clusters' :
               /\ clusters'[i].path = plast'.target_folder
               /\ clusters'[i].name_embedding # None
               /\ clusters'[i].n_files = NFiles(clusters, plast'.target_folder) + 1]_vars

\* C22: process_file hands the keywords to learn exactly when the move
\* reported success, the category is neither "Unknown" nor "Unsorted" and
\* there are keywords; a learn that went through is the memory's last call;
\* without the call the memory keeps its entries; and the thread leaves
\* run() only after stop(), whatever failed in learning.
C22_MemoryFeedback ==
    /\ plast.path # NoQueued
         => /\ plast.learn_called <=>
                  /\ plast.moved
                  /\ plast.category \notin {"Unknown", "Unsorted"}
                  /\ plast.keywords # <<>>
            /\ (plast.learn_called /\ ~ plast.learn_failed)
                  => /\ memlast.op = "learn"
                     /\ memlast.text = join(plast.keywords)
                     /\ memlast.category = plast.category
            /\ (~ plast.learn_called \/ plast.learn_failed) => data = plast.data_before
    /\ ppc = "exited" => ~ running
    /\ ppc \in {"while", "if_paused", "check", "get", "process_file", "exited"}

\* a second file is in process_file after learning failed for the first
C22_Witness ==
    /\ plast.learn_called
    /\ plast.learn_failed
    /\ ppc = "process_file"
    /\ Len(record.taken) = 2

\* C24: the paths are taken in the order they were put, each once and one at
\* a time; a path that was put is taken unless the processor is stopped or
\* paused or the resources are short at some time.
C24_SequentialConsumer ==
    /\ [](/\ Len(record.taken) <= Len(record.put)
          /\ \A i \in DOMAIN record.taken : record.taken[i] = record.put[i]
          /\ Len(queue) = Len(record.put) - Len(record.taken)
          /\ (ppc = "process_file") <=> (inflight # NoQueued)
          /\ ppc = "process_file" => inflight = record.taken[Len(record.taken)])
    /\ \A k \in 1..MaxPuts :
          (Len(record.put) >= k)
             ~> (Len(record.taken) >= k \/ ~ (running /\ ~ paused /\ resources))

\* the second path put is in process_file after the first one, which was
\* still in process_file when the second was put
C24_Witness ==
    /\ Len(record.put) = 2
    /\ record.put[1] # record.put[2]
    /\ ppc = "process_file"
    /\ Len(record.taken) = 2
    /\ inflight = record.put[2]
    /\ plast.path = record.put[1]
    /\ running /\ ~ paused /\ resources

\* C25: between pause() and resume() run() takes no path from the queue.
C25_PauseGates ==
    [][Begins => ~ paused]_vars

\* C26: after stop() at most one file is begun; once run() has left its loop
\* it stays out and begins nothing; and run() leaves its loop.
C26_StopTerminates ==
    /\ [](record.after_stop <= 1)
    /\ [][ppc = "exited" => (ppc' = "exited" /\ ~ Begins /\ inflight' = NoQueued)]_vars
    /\ (~ running) ~> (ppc = "exited")

\* run() has left its loop after one file begun after stop(), with a path
\* still in the queue, paused and short of resources
C26_Witness ==
    /\ ppc = "exited"
    /\ record.after_stop = 1
    /\ queue # <<>>
    /\ paused
    /\ ~ resources

====
